---- MODULE Spec2Model ----
(***************************************************************************)
(* Model of DataLoggerViewer (pyleco_extras/gui/DataLogger/                *)
(* DataLoggerViewer.pyw): the viewer window's fields and its start() slot. *)
(*                                                                         *)
(* Text is a sequence of one-character strings, a dict is the sequence of  *)
(* its <<key, value>> items in insertion order, a sample is a rational     *)
(* <<numerator, denominator>> in lowest terms.                             *)
(***************************************************************************)
EXTENDS Integers, Sequences, FiniteSets, TLC

VARIABLES
    last_path,      \* self.last_path
    lists,          \* self.lists
    variables,      \* self.variables (base class field)
    units,          \* self.units
    current_units,  \* self.current_units (base class field)
    configuration,  \* what set_configuration received last (base class)
    leHeader,       \* text of the header widget
    leSavedName,    \* text of the saved-name label
    lbCount,        \* text of the data-point label
    session,        \* "idle" until signals.started was emitted, then "loaded"
    call,           \* the latest start() invocation: outcome, file name, events
    file            \* what the loader returned in the latest successful load

vars == <<last_path, lists, variables, units, current_units, configuration,
          leHeader, leSavedName, lbCount, session, call, file>>

\* ---------------------------------------------------------------- bounds
MaxSamples == 2
MaxHeaderLen == 3
MaxVariables == 2

\* ------------------------------------------------------------------ text
NL == "\n"
SEP == "/"

Max(S) == CHOOSE x \in S : \A y \in S : y <= x

\* str.rfind: the last index of character c in s, 0 when there is none
RFind(s, c) ==
    LET I == {i \in 1..Len(s) : s[i] = c}
    IN  IF I = {} THEN 0 ELSE Max(I)

Find(s, c) == CHOOSE i \in 1..Len(s) : s[i] = c /\ \A j \in 1..(i - 1) : s[j] # c

RSplitFirst_Split(s) ==
    IF RFind(s, NL) = 0 THEN s ELSE SubSeq(s, 1, Find(s, NL) - 1)

\* header.rsplit("\n", maxsplit=1)[0]
RSplitFirst(s) ==
    IF RFind(s, NL) = 0 THEN s ELSE SubSeq(s, 1, RFind(s, NL) - 1)

\* Path(file_name).name: what follows the last separator
PathName(p) == SubSeq(p, RFind(p, SEP) + 1, Len(p))

\* ------------------------------------------------------------------ dict
EmptyDict == << >>

Keys(d) == [i \in 1..Len(d) |-> d[i][1]]

HasKey(d, k) == \E i \in 1..Len(d) : d[i][1] = k

Get(d, k) == d[CHOOSE i \in 1..Len(d) : d[i][1] = k][2]

\* d[k] = v: an existing key keeps its position, a new one goes last
DictSet(d, k, v) ==
    IF HasKey(d, k)
    THEN [i \in 1..Len(d) |-> IF d[i][1] = k THEN <<k, v>> ELSE d[i]]
    ELSE Append(d, <<k, v>>)

\* --------------------------------------------------------------- samples
RECURSIVE GCD(_, _)
GCD(a, b) == IF b = 0 THEN a ELSE GCD(b, a % b)

Rat(n, d) == LET g == GCD(n, d) IN IF g = 0 THEN <<0, 1>> ELSE <<n \div g, d \div g>>

SecondsPerHour == 3600

ToHours_Minutes(xs) == [i \in 1..Len(xs) |-> Rat(xs[i][1], xs[i][2] * 60)]

\* list(np.array(xs) / 3600)
ToHours(xs) == [i \in 1..Len(xs) |-> Rat(xs[i][1], xs[i][2] * SecondsPerHour)]

\* ---------------------------------------------------------------- inputs
Names == {"time", "time_h", "x"}

Path1 == <<SEP, "a", SEP, "r">>
Path2 == <<SEP, "s">>

\* what QFileDialog.getOpenFileName(...)[0] returns: "" on cancel
Cancelled == << >>

FileNames == {Cancelled, Path1, Path2}

\* n samples, one every half hour
Ramp(n) == [i \in 1..n |-> Rat(1800 * i, 1)]

KeyOrders ==
    UNION {{ks \in [1..n -> Names] : \A i, j \in 1..n : ks[i] = ks[j] => i = j}
           : n \in 0..Cardinality(Names)}

\* how many samples a variable can have: none, or one of the two largest
\* numbers
Lengths == {0} \cup {n \in 1..MaxSamples : n >= MaxSamples - 1}

\* the data mappings a file can hold: any variables in any order, each with
\* its own number of samples
Datas ==
    UNION {{[i \in 1..Len(ks) |-> <<ks[i], Ramp(ls[i])>>]
            : ls \in [1..Len(ks) -> Lengths]} : ks \in KeyOrders}

SmallDatas == {EmptyDict, <<<<"time", Ramp(1)>>>>}

Config1 == <<<<"trigger_type", "timer">>>>

Metas == {EmptyDict, <<<<"configuration", Config1>>>>}

Headers ==
    UNION {[1..n -> {"A", NL}] : n \in 0..MaxHeaderLen}

Header1 == <<"A", NL, "B">>

Raised == [ok |-> FALSE]

Loaded(header, data, meta) ==
    [ok |-> TRUE, header |-> header, data |-> data, meta |-> meta]

\* what load_datalogger_file(path) can do: raise, or return a file's parts
\* every data mapping, under one header and one metadata mapping
DataResults ==
    {Raised} \cup {Loaded(Header1, d, EmptyDict) : d \in Datas}

\* every header and metadata mapping, over a few data mappings
FileResults ==
    {Raised}
    \cup {Loaded(h, d, m) : h \in Headers, d \in SmallDatas, m \in Metas}

\* ------------------------------------------------------ the window object
Self ==
    [last_path |-> last_path, lists |-> lists, variables |-> variables,
     units |-> units, current_units |-> current_units,
     configuration |-> configuration, leHeader |-> leHeader,
     leSavedName |-> leSavedName, lbCount |-> lbCount, session |-> session,
     call |-> call, file |-> file]

Event(w, e) == [w EXCEPT !.call.trace = Append(@, e)]

Snapshot(w, name) ==
    [ev |-> name, lists |-> w.lists, variables |-> w.variables,
     current_units |-> w.current_units, leSavedName |-> w.leSavedName]

\* entry of the slot: the file dialog is shown and returns file_name
OpenDialog(w, file_name) ==
    [w EXCEPT !.call = [outcome |-> "running", file_name |-> file_name,
                        trace |-> <<[ev |-> "dialog"]>>]]

Return(w, outcome) == [w EXCEPT !.call.outcome = outcome]

\* self.last_path = file_name
SetLastPath(w, file_name) == [w EXCEPT !.last_path = file_name]

CallLoader_Clears(w) == [Event(w, [ev |-> "load"]) EXCEPT !.lists = EmptyDict]

\* header, data, meta = load_datalogger_file(path)
CallLoader(w) == Event(w, [ev |-> "load"])

LoaderReturned(w, result) == [w EXCEPT !.file = result]

\* self.lists = data
SetLists(w, data) == [w EXCEPT !.lists = data]

\* self.leHeader.setPlainText(header.rsplit("\n", maxsplit=1)[0])
SetHeader(w, header) == [w EXCEPT !.leHeader = RSplitFirst(header)]

\* meta.get("configuration", {})
MetaConfiguration(meta) ==
    IF HasKey(meta, "configuration") THEN Get(meta, "configuration") ELSE EmptyDict

\* DataLoggerBase.set_configuration(configuration)
set_configuration(w, c) == [w EXCEPT !.configuration = c]

DeriveTimeH_ResetUnits(w) ==
    IF HasKey(w.lists, "time") /\ ~HasKey(w.lists, "time_h")
    THEN [w EXCEPT !.lists = DictSet(@, "time_h", ToHours(Get(@, "time"))),
                   !.variables = @ \o <<"time_h">>,
                   !.units = DictSet(@, "time_h", "h")]
    ELSE [w EXCEPT !.units = EmptyDict]

\* if "time" in data.keys() and "time_h" not in data.keys(): ...
\* (data and self.lists are one object since line 98)
DeriveTimeH(w) ==
    IF HasKey(w.lists, "time") /\ ~HasKey(w.lists, "time_h")
    THEN [w EXCEPT !.lists = DictSet(@, "time_h", ToHours(Get(@, "time"))),
                   !.variables = @ \o <<"time_h">>,
                   !.units = DictSet(@, "time_h", "h")]
    ELSE w

\* self.current_units = self.units
PublishUnits(w) == [w EXCEPT !.current_units = w.units]

\* self.leSavedName.setText(path.name)
SetSavedName(w, file_name) == [w EXCEPT !.leSavedName = PathName(file_name)]

\* self.signals.update_plots.emit()
EmitUpdatePlots(w) == Event(w, Snapshot(w, "update_plots"))

\* self.signals.started.emit()
EmitStarted(w) == [Event(w, Snapshot(w, "started")) EXCEPT !.session = "loaded"]

SetCount_First(w) ==
    IF Len(Keys(w.lists)) = 0
    THEN w
    ELSE [w EXCEPT !.lbCount =
              <<"Data points: ", Len(Get(w.lists, Keys(w.lists)[1]))>>]

SetCount_Zero(w) ==
    IF Len(Keys(w.lists)) = 0
    THEN [w EXCEPT !.lbCount = <<"Data points: ", 0>>]
    ELSE [w EXCEPT !.lbCount =
              <<"Data points: ", Len(Get(w.lists, Keys(w.lists)[Len(w.lists)]))>>]

\* try: length = len(self.lists[list(self.lists).pop()]) / except IndexError
SetCount(w) ==
    IF Len(Keys(w.lists)) = 0
    THEN w
    ELSE [w EXCEPT !.lbCount =
              <<"Data points: ", Len(Get(w.lists, Keys(w.lists)[Len(w.lists)]))>>]

Display_EmitEarly(w, file_name, r) ==
    LET w1 == SetLists(LoaderReturned(w, r), r.data)
        w2 == SetHeader(w1, r.header)
        w3 == set_configuration(w2, MetaConfiguration(r.meta))
        w4 == DeriveTimeH(w3)
        w5 == EmitUpdatePlots(w4)
        w6 == PublishUnits(w5)
        w7 == SetSavedName(w6, file_name)
        w8 == EmitStarted(w7)
        w9 == SetCount(w8)
    IN  Return(w9, "loaded")

\* lines 98-117: everything after a successful loader call
Display(w, file_name, r) ==
    LET w1 == SetLists(LoaderReturned(w, r), r.data)
        w2 == SetHeader(w1, r.header)
        w3 == set_configuration(w2, MetaConfiguration(r.meta))
        w4 == DeriveTimeH(w3)
        w5 == PublishUnits(w4)
        w6 == SetSavedName(w5, file_name)
        w7 == EmitUpdatePlots(w6)
        w8 == EmitStarted(w7)
        w9 == SetCount(w8)
    IN  Return(w9, "loaded")

start_PathFirst(w, file_name, result) ==
    LET w0 == SetLastPath(OpenDialog(w, file_name), file_name)
    IN  IF file_name = Cancelled
        THEN Return(w0, "cancel")
        ELSE LET w1 == CallLoader(w0)
             IN  IF ~result.ok
                 THEN Return(w1, "failed")
                 ELSE Display(w1, file_name, result)

\* DataLoggerViewer.start
start(w, file_name, result) ==
    LET w0 == OpenDialog(w, file_name)
    IN  IF file_name = Cancelled
        THEN Return(w0, "cancel")
        ELSE LET w1 == CallLoader(SetLastPath(w0, file_name))
             IN  IF ~result.ok
                 THEN Return(w1, "failed")
                 ELSE Display(w1, file_name, result)

\* ------------------------------------------------------------ the machine
NoCall == [outcome |-> "none", file_name |-> Cancelled, trace |-> << >>]

\* fields the base class and the .ui file give the window
BaseInit ==
    /\ variables = << >>
    /\ current_units = EmptyDict
    /\ configuration = EmptyDict
    /\ leHeader = << >>
    /\ leSavedName = << >>
    /\ lbCount = << >>

Init ==
    /\ BaseInit
    /\ lists = EmptyDict
    /\ units = EmptyDict
    /\ last_path = << >>
    /\ session = "idle"
    /\ call = NoCall
    /\ file = Raised

\* the window after the slot has run is w
Becomes(w) ==
    /\ Len(w.variables) <= MaxVariables
    /\ last_path' = w.last_path
    /\ lists' = w.lists
    /\ variables' = w.variables
    /\ units' = w.units
    /\ current_units' = w.current_units
    /\ configuration' = w.configuration
    /\ leHeader' = w.leHeader
    /\ leSavedName' = w.leSavedName
    /\ lbCount' = w.lbCount
    /\ session' = w.session
    /\ call' = w.call
    /\ file' = w.file

\* the user triggers actionStart; the dialog and the loader answer
StartWith(names, results) ==
    \/ \* the dialog is cancelled: the loader is not called
       /\ Cancelled \in names
       /\ Becomes(start(Self, Cancelled, Raised))
    \/ \E file_name \in names \ {Cancelled}, result \in results :
           Becomes(start(Self, file_name, result))

\* sessions over one path and every data mapping
Start == StartWith({Cancelled, Path1}, DataResults)

Next == Start

Spec == Init /\ [][Next]_vars

\* sessions over every path, header and metadata mapping
StartFiles == StartWith(FileNames, FileResults)

NextFiles == StartFiles

SpecFiles == Init /\ [][NextFiles]_vars

\* ================================================================ claims
Signals == {"update_plots", "started"}

Emitted(c, name) == {i \in 1..Len(c.trace) : c.trace[i].ev = name}

NoSignal(c) == \A name \in Signals : Emitted(c, name) = {}

Count(seq, x) == Cardinality({i \in 1..Len(seq) : seq[i] = x})

Derives(data) == HasKey(data, "time") /\ ~HasKey(data, "time_h")

\* C1: a start() whose dialog is cancelled changes no field of the window
\* (last path, samples, header, variables, units, published units,
\* configuration, saved name, count, session) and emits no signal.
C1_CancelIsNoOp ==
    [][call'.outcome = "cancel" =>
          /\ UNCHANGED <<last_path, lists, leHeader, variables, units,
                         current_units, configuration, leSavedName, lbCount,
                         session>>
          /\ NoSignal(call')]_vars

C1_Witness ==
    /\ call.outcome = "cancel"
    /\ session = "loaded"
    /\ last_path # Cancelled
    /\ lists # EmptyDict

\* C2 as stated: a start() whose loader call raises leaves every field,
\* Last Path included, as it was and emits no signal.
C2_FailedLoadChangesNothing ==
    [][call'.outcome = "failed" =>
          /\ UNCHANGED <<last_path, lists, leHeader, variables, units,
                         current_units, configuration, leSavedName, lbCount,
                         session>>
          /\ NoSignal(call')]_vars

\* C2 amended: a start() whose loader call raises has set Last Path to the
\* chosen file; every other field is as it was and no signal is emitted.
C2_FailedLoadKeepsDisplay ==
    [][call'.outcome = "failed" =>
          /\ last_path' = call'.file_name
          /\ UNCHANGED <<lists, leHeader, variables, units, current_units,
                         configuration, leSavedName, lbCount, session>>
          /\ NoSignal(call')]_vars

C2_Witness ==
    /\ call.outcome = "failed"
    /\ session = "loaded"
    /\ lists # EmptyDict
    /\ leSavedName # PathName(last_path)

\* C3: after a successful start() on a file with "time" and without
\* "time_h", the variables contain "time_h", the loaded "time_h" samples are
\* as many as the file's "time" samples and each is the "time" sample
\* divided by 3600, and units["time_h"] is "h".
C3_TimeHDerived ==
    (call.outcome = "loaded" /\ Derives(file.data)) =>
        /\ Count(variables, "time_h") >= 1
        /\ HasKey(lists, "time_h")
        /\ LET t == Get(file.data, "time")
               h == Get(lists, "time_h")
           IN  /\ Len(h) = Len(t)
               /\ \A i \in 1..Len(t) :
                      h[i][1] * t[i][2] * SecondsPerHour = t[i][1] * h[i][2]
        /\ HasKey(units, "time_h")
        /\ Get(units, "time_h") = "h"

C3_Witness ==
    /\ call.outcome = "loaded"
    /\ Derives(file.data)
    /\ Len(Get(file.data, "time")) >= 2
    /\ Len(Get(lists, "time_h")) >= 2

\* C4 as stated: after a successful start() on a file that holds "time_h",
\* the loaded "time_h" samples are the file's and the variables contain
\* "time_h" exactly once.
C4_TimeHOnce ==
    (call.outcome = "loaded" /\ HasKey(file.data, "time_h")) =>
        /\ Get(lists, "time_h") = Get(file.data, "time_h")
        /\ Count(variables, "time_h") = 1

\* C5 as stated: the variables contain "time_h" if and only if the latest
\* loaded file held "time" and no "time_h", and never more than once.
C5_TimeHIffDerived ==
    /\ Count(variables, "time_h") >= 1 <=> (file.ok /\ Derives(file.data))
    /\ Count(variables, "time_h") <= 1

\* C7 as stated: after a successful start() on a file with a variable, the
\* count shown is the number of samples of the last name in the variables.
C7_CountOfLastVariable ==
    (call.outcome = "loaded" /\ file.data # EmptyDict) =>
        /\ Len(variables) > 0
        /\ HasKey(lists, variables[Len(variables)])
        /\ lbCount = <<"Data points: ",
                       Len(Get(lists, variables[Len(variables)]))>>

\* the last key of the samples after a load of data: the derived "time_h",
\* else the file's last variable
LastLoadedKey(data) ==
    IF Derives(data) THEN "time_h" ELSE data[Len(data)][1]

\* C7 amended: after a successful start() on a file with a variable, the
\* count shown is the number of samples of the last key of the loaded
\* samples mapping: "time_h" when it was derived in this load (as many as
\* "time" has), else the last variable of the file; the lengths of the other
\* variables and the variables list play no part.
C7_CountOfLastKey ==
    (call.outcome = "loaded" /\ file.data # EmptyDict) =>
        /\ lbCount = <<"Data points: ",
                       Len(Get(lists, LastLoadedKey(file.data)))>>
        /\ Derives(file.data) => lbCount[2] = Len(Get(file.data, "time"))
        /\ ~Derives(file.data) => lbCount[2] = Len(file.data[Len(file.data)][2])

C7_Witness ==
    /\ call.outcome = "loaded"
    /\ ~Derives(file.data)
    /\ Len(file.data) >= 2
    /\ Len(file.data[1][2]) # Len(file.data[Len(file.data)][2])
    /\ lbCount = <<"Data points: ", Len(file.data[Len(file.data)][2])>>

\* C8: a successful start() on a file without variables leaves the count
\* as it was and returns normally, and the rest of the load takes effect:
\* samples replaced, header and saved name set, both signals emitted.
C8_EmptyFileKeepsCount ==
    [][(call'.outcome \notin {"cancel", "failed"} /\ file'.data = EmptyDict) =>
          /\ call'.outcome = "loaded"
          /\ lbCount' = lbCount
          /\ lists' = EmptyDict
          /\ leHeader' = <<"A">>
          /\ leSavedName' = <<"r">>
          /\ \A name \in Signals : Cardinality(Emitted(call', name)) = 1]_vars

C8_Witness ==
    /\ call.outcome = "loaded"
    /\ file.data = EmptyDict
    /\ lists = EmptyDict
    /\ lbCount # << >>

\* C10: between start() invocations, samples that hold "time" hold
\* "time_h", the published units equal the units, and a step never removes
\* or changes an entry of the units.
C10_Inv ==
    /\ HasKey(lists, "time") => HasKey(lists, "time_h")
    /\ current_units = units

C10_UnitsPersist ==
    \A i \in 1..Len(units) :
        HasKey(units', units[i][1]) /\ Get(units', units[i][1]) = units[i][2]

RECURSIVE Lines(_)
Lines(s) ==
    IF RFind(s, NL) = 0
    THEN <<s>>
    ELSE LET i == Find(s, NL)
         IN  <<SubSeq(s, 1, i - 1)>> \o Lines(SubSeq(s, i + 1, Len(s)))

RECURSIVE JoinLines(_)
JoinLines(ls) ==
    IF Len(ls) = 0 THEN << >>
    ELSE IF Len(ls) = 1 THEN ls[1]
    ELSE ls[1] \o <<NL>> \o JoinLines(Tail(ls))

AllButLast(ls) == SubSeq(ls, 1, Len(ls) - 1)

\* C6 as stated: after a successful start() the header shown is the loaded
\* header without its final line, whatever the header is.
C6_HeaderWithoutLastLine ==
    call.outcome = "loaded" =>
        leHeader = JoinLines(AllButLast(Lines(file.header)))

\* C6 amended: after a successful start() the header shown is the loaded
\* header without its final line when the header has a line break, and the
\* whole header when it has none (a single line is shown, not dropped).
C6_HeaderSplitAtLastBreak ==
    call.outcome = "loaded" =>
        IF \E i \in 1..Len(file.header) : file.header[i] = NL
        THEN leHeader = JoinLines(AllButLast(Lines(file.header)))
        ELSE leHeader = file.header

C6_Witness ==
    /\ call.outcome = "loaded"
    /\ Len(Lines(file.header)) >= 3
    /\ Len(leHeader) >= 2

\* C9: a successful start() shows the dialog, calls the loader, then emits
\* update_plots once and started once, in this order; at each emission the
\* samples, variables, published units and saved name are those the call
\* ends with, which are the loaded file's. The session becomes "loaded" in
\* a successful start() only and stays so.
C9_Order ==
    call.outcome = "loaded" =>
        /\ Len(call.trace) = 4
        /\ call.trace[1].ev = "dialog"
        /\ call.trace[2].ev = "load"
        /\ call.trace[3].ev = "update_plots"
        /\ call.trace[4].ev = "started"
        /\ \A i \in {3, 4} :
              /\ call.trace[i].lists = lists
              /\ call.trace[i].variables = variables
              /\ call.trace[i].current_units = units
              /\ call.trace[i].leSavedName = PathName(call.file_name)
        /\ SubSeq(lists, 1, Len(file.data)) = file.data
        /\ Derives(file.data) =>
              /\ HasKey(call.trace[3].lists, "time_h")
              /\ Count(call.trace[3].variables, "time_h") >= 1
              /\ HasKey(call.trace[3].current_units, "time_h")
        /\ session = "loaded"

C9_Session ==
    /\ session = "loaded" => session' = "loaded"
    /\ (session = "idle" /\ session' = "loaded") => call'.outcome = "loaded"
    /\ call'.outcome \in {"cancel", "failed"} =>
          (session' = session /\ NoSignal(call'))

====
